---- MODULE Spec2Model ----
(***************************************************************************)
(* Model of the Codex rate-limit webview extension:                        *)
(*   - sanitizeColor (src/src/utils/sanitize.ts), with its regular         *)
(*     expressions translated to a small regular-expression matcher;       *)
(*   - RateLimitWebView (src/unnamed/part_000, second class): singleton    *)
(*     slot, constructor, createOrShow, revive, dispose, _update, message  *)
(*     handler, _getErrorHtml and _escapeHtml;                             *)
(*   - the rendering helpers of the same class: _renderProgressSection,    *)
(*     _clampPercentage, _getProgressClass and _getUsageClass.             *)
(* Strings are sequences of one-character strings.                         *)
(***************************************************************************)
EXTENDS Integers, Sequences, FiniteSets, TLC

VARIABLES
    \* ---- sanitizeColor harness
    input,        \* [def, str]: the `input` argument (def = FALSE: undefined)
    fallback,     \* the `fallback` argument
    result,       \* the value sanitizeColor returned
    sanPc,        \* "ready" before the call, "done" after, "idle" when unused
    \* ---- _getErrorHtml / _escapeHtml harness
    escIn,        \* the errorMessage argument
    escMarkup,    \* _getErrorHtml(errorMessage)
    escTwice,     \* _escapeHtml applied to the message of escMarkup
    escPc,        \* "ready", "once", "twice", or "idle" when unused
    \* ---- RateLimitWebView
    currentPanel, \* static currentPanel: an instance id, or None
    constructed,  \* number of instances constructed so far (ids 1..constructed)
    disposed,     \* ids on which dispose() has run (their _panel is disposed)
    disposables,  \* [id -> _disposables, a stack of cleanup handles]
    released,     \* [id -> handles whose dispose() was called, in call order]
    inflight,     \* [id -> number of _update cycles awaiting getRateLimitData]
    html,         \* [id -> markup last assigned to _panel.webview.html]
    unhandled,    \* TRUE once an _update promise was rejected
    lastOp,       \* the operation that made the last step, with what it logged
    \* ---- configuration and the rendering helpers
    config,       \* codexRatelimit.color.warningThreshold / criticalThreshold
    data,         \* the RateLimitData given to _renderProgressSection
    progress,     \* [html, widthRules]: what _renderProgressSection produced
    renderPc,     \* "ready", "done", or "idle" when unused
    percentage,   \* the percentage argument of _getUsageClass
    outdated,     \* the outdated argument of _getUsageClass
    usageClass,   \* the class _getUsageClass returned
    clsPc         \* "ready", "done", or "idle" when unused

sanVars == <<input, fallback, result, sanPc>>
escVars == <<escIn, escMarkup, escTwice, escPc>>
panelVars == <<currentPanel, constructed, disposed, disposables, released,
               inflight, html, unhandled, lastOp>>
renderVars == <<config, data, progress, renderPc, percentage, outdated,
                usageClass, clsPc>>
vars == <<sanVars, escVars, panelVars, renderVars>>

----------------------------------------------------------------------------
(* Characters and strings *)

Digit == {"0", "1", "2", "3", "4", "5", "6", "7", "8", "9"}
HexLetter == {"a", "b", "c", "d", "e", "f", "A", "B", "C", "D", "E", "F"}
\* what \s and String.prototype.trim treat as white space (the members used here)
WhiteSpace == {" ", "\t", "\n"}

RECURSIVE Concat(_)
Concat(parts) ==
    IF parts = <<>> THEN <<>> ELSE Head(parts) \o Concat(Tail(parts))

RECURSIVE Repeat(_, _)
Repeat(s, n) == IF n <= 0 THEN <<>> ELSE s \o Repeat(s, n - 1)

\* s contains t as a contiguous substring
Includes(s, t) ==
    \E i \in 1..(Len(s) - Len(t) + 1) : SubSeq(s, i, i + Len(t) - 1) = t

RECURSIVE TrimStart(_)
TrimStart(s) ==
    IF s # <<>> /\ Head(s) \in WhiteSpace THEN TrimStart(Tail(s)) ELSE s

RECURSIVE TrimEnd(_)
TrimEnd(s) ==
    IF s # <<>> /\ s[Len(s)] \in WhiteSpace
    THEN TrimEnd(SubSeq(s, 1, Len(s) - 1))
    ELSE s

\* String.prototype.trim
Trim(s) == TrimEnd(TrimStart(s))

----------------------------------------------------------------------------
(* Regular expressions: the constructors used by the patterns of sanitize.ts *)

Cls(chars) == [t |-> "cls", cs |-> chars]        \* [...] , \d , \s , a literal
Cat(rs) == [t |-> "cat", rs |-> rs]              \* r1 r2 ... rn
Alt(rs) == [t |-> "alt", rs |-> rs]              \* (?:r1|r2|...|rn)
Star(chars) == [t |-> "star", cs |-> chars]      \* c* for a character class c
Opt(r) == Alt(<<r, Cat(<<>>)>>)                  \* r?
Plus(chars) == Cat(<<Cls(chars), Star(chars)>>)  \* c+ for a character class c
Times(r, n) == Cat([k \in 1..n |-> r])           \* r{n}
Lit(s) == Cat([k \in 1..Len(s) |-> Cls({s[k]})]) \* the characters of s

\* Ends(r, s, I): the positions at which a match of r that starts at a
\* position of I can end (a position p stands before s[p]).  The patterns
\* repeat character classes only.  CatEnds matches rs[k], rs[k+1], ... in
\* turn, each from the positions the one before can end at.
RECURSIVE Ends(_, _, _)
RECURSIVE CatEnds(_, _, _, _)
Ends(r, s, I) ==
    CASE r.t = "cls" -> {i + 1 : i \in {k \in I : k <= Len(s) /\ s[k] \in r.cs}}
      [] r.t = "cat" -> CatEnds(r.rs, 1, s, I)
      [] r.t = "alt" -> UNION {Ends(r.rs[k], s, I) : k \in DOMAIN r.rs}
      [] r.t = "star" ->
            {j \in 1..(Len(s) + 1) :
                \E i \in I : i <= j /\ \A k \in i..(j - 1) : s[k] \in r.cs}
CatEnds(rs, k, s, I) ==
    IF k > Len(rs) \/ I = {} THEN I
    ELSE UNION {CatEnds(rs, k + 1, s, J) : J \in {Ends(rs[k], s, I)}}

\* RegExp.prototype.test for a pattern written ^r$ without flags
Test(r, s) == (Len(s) + 1) \in Ends(r, s, {1})

----------------------------------------------------------------------------
(* sanitize.ts, lines 17-45 *)

MaxColorLen == 50

HexChar == Cls(Digit \cup HexLetter)             \* [a-fA-F0-9]
D == Cls(Digit)                                  \* \d
S == Star(WhiteSpace)                            \* \s*
Dot == Cls({"."})                                \* \.
Comma == Cls({","})

\* /^#(?:[a-fA-F0-9]{3}|[a-fA-F0-9]{6}|[a-fA-F0-9]{8})$/
HEX_COLOR_PATTERN ==
    Cat(<<Cls({"#"}), Alt(<<Times(HexChar, 3), Times(HexChar, 6), Times(HexChar, 8)>>)>>)

\* (?:[01]?\d?\d|2[0-4]\d|25[0-5])
RGB_NUMBER ==
    Alt(<<Cat(<<Opt(Cls({"0", "1"})), Opt(D), D>>),
          Cat(<<Cls({"2"}), Cls({"0", "1", "2", "3", "4"}), D>>),
          Cat(<<Cls({"2"}), Cls({"5"}), Cls({"0", "1", "2", "3", "4", "5"})>>)>>)

\* (?:0|0?\.\d+|1(?:\.0+)?)
ALPHA_VALUE ==
    Alt(<<Cls({"0"}),
          Cat(<<Opt(Cls({"0"})), Dot, Plus(Digit)>>),
          Cat(<<Cls({"1"}), Opt(Cat(<<Dot, Plus({"0"})>>))>>)>>)

\* ^rgba?\(\s*N\s*,\s*N\s*,\s*N(?:\s*,\s*A)?\s*\)$
RGB_COLOR_PATTERN ==
    Cat(<<Lit(<<"r", "g", "b">>), Opt(Cls({"a"})), Cls({"("}),
          S, RGB_NUMBER, S, Comma, S, RGB_NUMBER, S, Comma, S, RGB_NUMBER,
          Opt(Cat(<<S, Comma, S, ALPHA_VALUE>>)), S, Cls({")"})>>)

\* (?:360(?:\.0+)?|3[0-5]\d(?:\.\d+)?|[12]?\d?\d(?:\.\d+)?)
HUE_COMPONENT ==
    Alt(<<Cat(<<Lit(<<"3", "6", "0">>), Opt(Cat(<<Dot, Plus({"0"})>>))>>),
          Cat(<<Cls({"3"}), Cls({"0", "1", "2", "3", "4", "5"}), D,
                Opt(Cat(<<Dot, Plus(Digit)>>))>>),
          Cat(<<Opt(Cls({"1", "2"})), Opt(D), D, Opt(Cat(<<Dot, Plus(Digit)>>))>>)>>)

\* (?:100|[0-9]{1,2})(?:\.\d+)?%
HSL_PERCENT ==
    Cat(<<Alt(<<Lit(<<"1", "0", "0">>), Cat(<<D, Opt(D)>>)>>),
          Opt(Cat(<<Dot, Plus(Digit)>>)), Cls({"%"})>>)

\* ^hsla?\(\s*H\s*,\s*P\s*,\s*P(?:\s*,\s*A)?\s*\)$
HSL_COLOR_PATTERN ==
    Cat(<<Lit(<<"h", "s", "l">>), Opt(Cls({"a"})), Cls({"("}),
          S, HUE_COMPONENT, S, Comma, S, HSL_PERCENT, S, Comma, S, HSL_PERCENT,
          Opt(Cat(<<S, Comma, S, ALPHA_VALUE>>)), S, Cls({")"})>>)

\* /^[#a-zA-Z0-9(),.%\s-]{1,50}$/ : the pattern of the earlier sanitizeColor
SafeChar ==
    Digit \cup HexLetter \cup WhiteSpace \cup {"#", "(", ")", ",", ".", "%", "-"}
        \cup {"g", "h", "i", "j", "k", "l", "m", "n", "o", "p", "q", "r", "s",
              "t", "u", "v", "w", "x", "y", "z"}

\* the earlier sanitizeColor (sanitize.ts lines 3-15): one character class
sanitizeColor_SafePattern(in, fb) ==
    IF ~in.def \/ in.str = <<>> THEN fb
    ELSE LET trimmed == Trim(in.str)
         IN  IF /\ Len(trimmed) \in 1..MaxColorLen
                /\ \A k \in 1..Len(trimmed) : trimmed[k] \in SafeChar
             THEN trimmed ELSE fb

\* sanitizeColor without the length test of lines 32-34
sanitizeColor_NoLength(in, fb) ==
    IF ~in.def \/ in.str = <<>> THEN fb
    ELSE LET trimmed == Trim(in.str)
         IN  IF \/ Test(HEX_COLOR_PATTERN, trimmed)
                \/ Test(RGB_COLOR_PATTERN, trimmed)
                \/ Test(HSL_COLOR_PATTERN, trimmed)
             THEN trimmed ELSE fb

sanitizeColor(in, fb) ==
    IF ~in.def \/ in.str = <<>> THEN fb                      \* if (!input)
    ELSE LET trimmed == Trim(in.str)
         IN  IF Len(trimmed) > MaxColorLen THEN fb
             ELSE IF \/ Test(HEX_COLOR_PATTERN, trimmed)
                     \/ Test(RGB_COLOR_PATTERN, trimmed)
                     \/ Test(HSL_COLOR_PATTERN, trimmed)
                  THEN trimmed
                  ELSE fb

----------------------------------------------------------------------------
(* The inputs sanitizeColor is applied to *)

MaxHexDigits == 9

Str_fff == <<"#", "f", "f", "f">>
Str_112233 == <<"#", "1", "1", "2", "2", "3", "3">>
Str_rgba == <<"r", "g", "b", "a", "(", "1", "0", ",", " ", "2", "0", ",", " ", "3", "0", ",", " ", "0", ".", "5", ")">>
Str_hsl == <<"h", "s", "l", "(", "2", "0", "0", ",", " ", "5", "0", "%", ",", " ", "4", "0", "%", ")">>
Str_red == <<"r", "e", "d", ";", " ", "b", "a", "c", "k", "g", "r", "o", "u", "n", "d", ":", "u", "r", "l", "(", "x", ")">>
Str_rgb999 == <<"r", "g", "b", "(", "9", "9", "9", ",", "0", ",", "0", ")">>
Str_url == <<"u", "r", "l", "(">>
Str_expression == <<"e", "x", "p", "r", "e", "s", "s", "i", "o", "n", "(">>

\* the defaults the callers pass as fallback (part_000 lines 474-475)
DefaultWarningColor == <<"#", "f", "3", "d", "8", "9", "8">>
DefaultCriticalColor == <<"#", "e", "c", "a", "7", "a", "7">>
Fallbacks == {DefaultWarningColor, DefaultCriticalColor}

FuncNames ==
    {<<"r", "g", "b">>, <<"r", "g", "b", "a">>, <<"h", "s", "l">>,
     <<"h", "s", "l", "a">>, <<"u", "r", "l">>, Str_expression \o <<"x">>}

FirstComponents ==
    {<<"0">>, <<"2", "5", "5">>, <<"2", "5", "6">>, <<"0", "0", "7">>,
     <<"3", "6", "0">>, <<"3", "6", "0", ".", "5">>, <<"5", "0", "%">>}
SecondComponents ==
    {<<"0">>, <<"1", "0", "0", "%">>, <<"1", "0", "0", ".", "5", "%">>,
     <<"1", "0", "1", "%">>}
ThirdComponents == {<<"0">>, <<"0", "%">>}
AlphaParts ==
    {<<>>, <<",", "0", ".", "5">>, <<",", "1", ".", "5">>, <<",", "1", ".", "0">>}

\* name(c1,c2,c3[,a]) with every component varied
NumericInputs ==
    {Concat(<<n, <<"(">>, c1, <<",">>, c2, <<",">>, c3, a, <<")">>>>) :
        n \in FuncNames, c1 \in FirstComponents, c2 \in SecondComponents,
        c3 \in ThirdComponents, a \in AlphaParts}

Leads == {<<>>, <<" ">>, <<"\n">>}
Pads ==
    {<<>>, <<" ">>, <<"\n">>, <<";">>, Str_url,
     Repeat(<<" ">>, MaxColorLen - 10), Repeat(<<" ">>, MaxColorLen - 9)}
Gaps == {<<>>, <<" ">>, <<"\n">>}
Trails ==
    {<<>>, <<" ">>, <<"\n">>, <<";">>, <<"\n", ";">>, Str_url, Str_expression}
Bodies ==
    {<<<<"r", "g", "b">>, <<"0">>>>, <<<<"r", "g", "b", "a">>, <<"0">>>>,
     <<<<"h", "s", "l">>, <<"0", "%">>>>, <<<<"h", "s", "l", "a">>, <<"0", "%">>>>}

\* name( pad 0 , gap c , gap c ) with white space and forbidden text around
SpacedInputs ==
    {Concat(<<l, b[1], <<"(">>, p, <<"0">>, <<",">>, g, b[2], <<",">>, g, b[2],
              <<")">>, t>>) :
        l \in Leads, b \in Bodies, p \in Pads, g \in Gaps, t \in Trails}

HexInputs ==
    {<<"#">> \o Repeat(<<d>>, n) : d \in {"a", "F", "0", "g"}, n \in 0..MaxHexDigits}

NamedInputs ==
    {Str_fff, Str_112233, Str_rgba, Str_hsl, Str_red, Str_rgb999,
     <<"#">> \o Repeat(<<"a">>, MaxColorLen), <<>>, <<" ", " ">>}

SanStrings == NamedInputs \cup HexInputs \cup NumericInputs \cup SpacedInputs

SanInputs ==
    {[def |-> TRUE, str |-> s] : s \in SanStrings} \cup {[def |-> FALSE, str |-> <<>>]}

----------------------------------------------------------------------------
(* part_000, lines 641-701: _getErrorHtml and _escapeHtml *)

SpecialChars == {"&", "<", ">", "\"", "'"}                \* /[&<>"']/g

Ent_amp == <<"&", "a", "m", "p", ";">>
Ent_lt == <<"&", "l", "t", ";">>
Ent_gt == <<"&", "g", "t", ";">>
Ent_quot == <<"&", "q", "u", "o", "t", ";">>
Ent_39 == <<"&", "#", "3", "9", ";">>

\* the replacer callback: one matched character to its entity
EscapeChar(char) ==
    CASE char = "&" -> Ent_amp
      [] char = "<" -> Ent_lt
      [] char = ">" -> Ent_gt
      [] char = "\"" -> Ent_quot
      [] char = "'" -> Ent_39
      [] OTHER -> <<char>>

\* a replacer that leaves the single quote alone
_escapeHtml_NoApos(value) ==
    Concat([k \in 1..Len(value) |->
              IF value[k] = "'" THEN <<"'">> ELSE EscapeChar(value[k])])

\* value.replace(/[&<>"']/g, replacer): every match replaced, the rest kept
_escapeHtml(value) ==
    Concat([k \in 1..Len(value) |->
              IF value[k] \in SpecialChars THEN EscapeChar(value[k]) ELSE <<value[k]>>])

\* an error page that interpolates the message as it came
_getErrorHtml_Raw(errorMessage) ==
    [kind |-> "error", message |-> errorMessage]

\* the error page: the only interpolated text is <p>${safeErrorMessage}</p>
_getErrorHtml(errorMessage) ==
    [kind |-> "error", message |-> _escapeHtml(errorMessage)]

\* the success page (lines 462-527); its body is not needed for the lifecycle
SuccessHtml == [kind |-> "success", message |-> <<>>]
\* webview.html before the first assignment
NoHtml == [kind |-> "none", message |-> <<>>]

----------------------------------------------------------------------------
(* Harness: sanitizeColor applied to one input *)

SanIdle ==
    /\ input = [def |-> FALSE, str |-> <<>>]
    /\ fallback = DefaultWarningColor
    /\ result = <<>>
    /\ sanPc = "idle"

SanInit ==
    /\ input \in SanInputs
    /\ fallback \in Fallbacks
    /\ result = <<>>
    /\ sanPc = "ready"

SanCall ==
    /\ sanPc = "ready"
    /\ result' = sanitizeColor(input, fallback)
    /\ sanPc' = "done"
    /\ UNCHANGED <<input, fallback>>

(* Harness: _getErrorHtml applied to one message, _escapeHtml applied again *)

MaxEscLen == 3

EscAlphabet == SpecialChars \cup {"a", ";"}
Str_script == <<"<", "s", "c", "r", "i", "p", "t", ">">>

RECURSIVE StringsUpTo(_, _)
StringsUpTo(alphabet, n) ==
    IF n = 0 THEN {<<>>}
    ELSE LET shorter == StringsUpTo(alphabet, n - 1)
         IN  shorter \cup {Append(w, c) : w \in shorter, c \in alphabet}

EscInputs == StringsUpTo(EscAlphabet, MaxEscLen) \cup {Str_script}

EscIdle ==
    /\ escIn = <<>>
    /\ escMarkup = NoHtml
    /\ escTwice = <<>>
    /\ escPc = "idle"

EscInit ==
    /\ escIn \in EscInputs
    /\ escMarkup = NoHtml
    /\ escTwice = <<>>
    /\ escPc = "ready"

EscRender ==
    /\ escPc = "ready"
    /\ escMarkup' = _getErrorHtml(escIn)
    /\ escPc' = "once"
    /\ UNCHANGED <<escIn, escTwice>>

EscAgain ==
    /\ escPc = "once"
    /\ escTwice' = _escapeHtml(escMarkup.message)
    /\ escPc' = "twice"
    /\ UNCHANGED <<escIn, escMarkup>>

----------------------------------------------------------------------------
(* part_000, lines 359-460: RateLimitWebView *)

MaxInst == 3        \* instances constructed in one run
MaxPending == 2     \* _update cycles that wait for their data at one time

None == 0
Ids == 1..MaxInst
Live == (1..constructed) \ disposed     \* constructed and not yet disposed

Msg_NotFound == <<"N", "o", " ", "r", "a", "t", "e", " ", "l", "i", "m", "i", "t", " ", "d", "a", "t", "a", " ", "f", "o", "u", "n", "d">>
Msg_Undefined == <<"R", "a", "t", "e", " ", "l", "i", "m", "i", "t", " ", "d", "a", "t", "a", " ", "i", "s", " ", "u", "n", "d", "e", "f", "i", "n", "e", "d">>
Msg_Unknown == <<"U", "n", "k", "n", "o", "w", "n", " ", "e", "r", "r", "o", "r">>

Log(text, arg) == [text |-> text, arg |-> arg]

(* What getRateLimitData and the success renderer can hand to _update *)

CollabErrors == {<<"<", "e", ">">>}
ThrownMessages == {<<"a", "&", "'">>}
Nothing == [isError |-> FALSE, message |-> <<>>]
\* thrown values: an Error with a message, or something that is no Error
Throwables ==
    {[isError |-> TRUE, message |-> m] : m \in ThrownMessages} \cup {Nothing}

\* error = <<>> stands for an absent and for an empty error: both are falsy
FetchOutcomes ==
    {[threw |-> TRUE, thrown |-> t, found |-> FALSE, data |-> FALSE, error |-> <<>>] :
        t \in Throwables}
    \cup {[threw |-> FALSE, thrown |-> Nothing, found |-> FALSE, data |-> d, error |-> e] :
        d \in BOOLEAN, e \in {<<>>} \cup CollabErrors}
    \cup {[threw |-> FALSE, thrown |-> Nothing, found |-> TRUE, data |-> d, error |-> <<>>] :
        d \in BOOLEAN}

RenderOk == [threw |-> FALSE, thrown |-> Nothing]
RenderOutcomes == {RenderOk} \cup {[threw |-> TRUE, thrown |-> t] : t \in Throwables}

NoFetch == [threw |-> FALSE, thrown |-> Nothing, found |-> FALSE, data |-> FALSE, error |-> <<>>]

\* catch (error) { ... }, lines 455-459
Caught(thrown) ==
    LET errorMessage == IF thrown.isError THEN thrown.message ELSE Msg_Unknown
    IN  [html |-> _getErrorHtml(errorMessage),
         logs |-> <<Log("Error updating WebView: ", errorMessage)>>,
         writes |-> 1,
         rejected |-> FALSE]

\* _update without its try/catch: a thrown value rejects the promise
_update_NoCatch(old, fetch, render) ==
    IF fetch.threw \/ (fetch.found /\ fetch.data /\ render.threw)
    THEN [html |-> old, logs |-> <<>>, writes |-> 0, rejected |-> TRUE]
    ELSE IF ~fetch.found
    THEN [html |-> _getErrorHtml(IF fetch.error # <<>> THEN fetch.error ELSE Msg_NotFound),
          logs |-> <<>>, writes |-> 1, rejected |-> FALSE]
    ELSE IF ~fetch.data
    THEN [html |-> _getErrorHtml(Msg_Undefined),
          logs |-> <<>>, writes |-> 1, rejected |-> FALSE]
    ELSE [html |-> SuccessHtml,
          logs |-> <<Log("WebView updated successfully", <<>>)>>,
          writes |-> 1, rejected |-> FALSE]

\* _update without the test of result.data: missing data is rendered
_update_NoDataCheck(old, fetch, render) ==
    IF fetch.threw THEN Caught(fetch.thrown)
    ELSE IF ~fetch.found
    THEN [html |-> _getErrorHtml(IF fetch.error # <<>> THEN fetch.error ELSE Msg_NotFound),
          logs |-> <<>>, writes |-> 1, rejected |-> FALSE]
    ELSE IF render.threw THEN Caught(render.thrown)
    ELSE [html |-> SuccessHtml,
          logs |-> <<Log("WebView updated successfully", <<>>)>>,
          writes |-> 1, rejected |-> FALSE]

\* _update that returns on missing data without assigning any markup
_update_SilentNoData(old, fetch, render) ==
    IF fetch.threw THEN Caught(fetch.thrown)
    ELSE IF ~fetch.found
    THEN [html |-> _getErrorHtml(IF fetch.error # <<>> THEN fetch.error ELSE Msg_NotFound),
          logs |-> <<>>, writes |-> 1, rejected |-> FALSE]
    ELSE IF ~fetch.data
    THEN [html |-> old, logs |-> <<>>, writes |-> 0, rejected |-> FALSE]
    ELSE IF render.threw THEN Caught(render.thrown)
    ELSE [html |-> SuccessHtml,
          logs |-> <<Log("WebView updated successfully", <<>>)>>,
          writes |-> 1, rejected |-> FALSE]

\* the part of _update after `await getRateLimitData()`, lines 441-459:
\* old is the markup shown, fetch what the await produced, render what
\* _getHtml does when it is reached
_update(old, fetch, render) ==
    IF fetch.threw THEN Caught(fetch.thrown)
    ELSE IF ~fetch.found
    THEN [html |-> _getErrorHtml(IF fetch.error # <<>> THEN fetch.error ELSE Msg_NotFound),
          logs |-> <<>>, writes |-> 1, rejected |-> FALSE]
    ELSE IF ~fetch.data
    THEN [html |-> _getErrorHtml(Msg_Undefined),
          logs |-> <<>>, writes |-> 1, rejected |-> FALSE]
    ELSE IF render.threw THEN Caught(render.thrown)
    ELSE [html |-> SuccessHtml,
          logs |-> <<Log("WebView updated successfully", <<>>)>>,
          writes |-> 1, rejected |-> FALSE]

\* a step: the operation, its instance, what it logged and, for the end of
\* an _update cycle, what the cycle was given and how often it assigned markup
Op(op, inst, cmd, logs, fetch, render, writes) ==
    [op |-> op, inst |-> inst, cmd |-> cmd, logs |-> logs,
     fetch |-> fetch, render |-> render, writes |-> writes]

\* a step that completes no _update cycle
Did(op, inst, cmd, logs) == Op(op, inst, cmd, logs, NoFetch, RenderOk, 0)

RECURSIVE Sum(_, _)
Sum(f, n) == IF n = 0 THEN 0 ELSE f[n] + Sum(f, n - 1)
Pending == Sum(inflight, MaxInst)

PanelInit ==
    /\ currentPanel = None
    /\ constructed = 0
    /\ disposed = {}
    /\ disposables = [i \in Ids |-> <<>>]
    /\ released = [i \in Ids |-> <<>>]
    /\ inflight = [i \in Ids |-> 0]
    /\ html = [i \in Ids |-> NoHtml]
    /\ unhandled = FALSE
    /\ lastOp = Did("init", None, "", <<>>)

\* _update() up to its await: the cycle is started and waits for the data
StartUpdate(i) ==
    /\ Pending < MaxPending
    /\ inflight' = [inflight EXCEPT ![i] = @ + 1]

\* the constructor, lines 396-421: _update(), then the two registrations
Construct(i) ==
    /\ constructed' = i
    /\ StartUpdate(i)
    /\ disposables' = [disposables EXCEPT ![i] = <<"onDidDispose", "onDidReceiveMessage">>]

\* createOrShow, lines 366-390
createOrShow ==
    IF currentPanel # None
    THEN /\ StartUpdate(currentPanel)                 \* reveal(column); _update()
         /\ lastOp' = Did("createOrShow", currentPanel, "", <<>>)
         /\ UNCHANGED <<currentPanel, constructed, disposed, disposables, released,
                        html, unhandled>>
    ELSE /\ constructed < MaxInst
         /\ Construct(constructed + 1)
         /\ currentPanel' = constructed + 1
         /\ lastOp' = Did("createOrShow", constructed + 1, "", <<>>)
         /\ UNCHANGED <<disposed, released, html, unhandled>>

\* revive, lines 392-394
revive ==
    /\ constructed < MaxInst
    /\ Construct(constructed + 1)
    /\ currentPanel' = constructed + 1
    /\ lastOp' = Did("revive", constructed + 1, "", <<>>)
    /\ UNCHANGED <<disposed, released, html, unhandled>>

\* while (this._disposables.length) { x = pop(); x.dispose() }: the order of
\* the dispose() calls
RECURSIVE PopAll(_)
PopAll(stack) ==
    IF stack = <<>> THEN <<>>
    ELSE <<stack[Len(stack)]>> \o PopAll(SubSeq(stack, 1, Len(stack) - 1))

\* the body of dispose(), lines 423-435.  _panel.dispose() makes the host fire
\* onDidDispose, whose listener runs this body once more inside the first
\* run; the loop of the inner run empties the stack, the outer one finds it
\* empty.
DisposeBody(i) ==
    /\ currentPanel' = None
    /\ disposed' = disposed \cup {i}
    /\ released' = [released EXCEPT ![i] = @ \o PopAll(disposables[i])]
    /\ disposables' = [disposables EXCEPT ![i] = <<>>]
    /\ UNCHANGED <<constructed, inflight, html, unhandled>>

\* a call of the public dispose() on an instance that was constructed
dispose(i) ==
    /\ i \in 1..constructed
    /\ DisposeBody(i)
    /\ lastOp' = Did("dispose", i, "", <<>>)

\* the user closes the panel: the listener of line 405 calls dispose()
onDidDispose(i) ==
    /\ i \in Live
    /\ \E k \in DOMAIN disposables[i] : disposables[i][k] = "onDidDispose"
    /\ DisposeBody(i)
    /\ lastOp' = Did("onDidDispose", i, "", <<>>)

Commands == {"refresh", "other"}

\* a listener that runs _update for every command
onDidReceiveMessage_AnyCommand(i, command) ==
    /\ \E k \in DOMAIN disposables[i] : disposables[i][k] = "onDidReceiveMessage"
    /\ Pending < MaxPending
    /\ inflight' = [inflight EXCEPT ![i] = @ + 1]
    /\ lastOp' = Did("message", i, command, <<>>)
    /\ UNCHANGED <<currentPanel, constructed, disposed, disposables, released,
                   html, unhandled>>

\* the onDidReceiveMessage listener, lines 408-420
onDidReceiveMessage(i, command) ==
    /\ \E k \in DOMAIN disposables[i] : disposables[i][k] = "onDidReceiveMessage"
    /\ IF command = "refresh"
       THEN /\ StartUpdate(i)
            /\ lastOp' = Did("message", i, command,
                             <<Log("WebView received message: ", <<>>),
                               Log("WebView refresh triggered", <<>>)>>)
       ELSE /\ lastOp' = Did("message", i, command,
                             <<Log("WebView received message: ", <<>>)>>)
            /\ UNCHANGED inflight
    /\ UNCHANGED <<currentPanel, constructed, disposed, disposables, released,
                   html, unhandled>>

\* getRateLimitData settles and _update runs to its end
UpdateDone(i, fetch, render) ==
    /\ inflight[i] > 0
    /\ render = RenderOk \/ (~fetch.threw /\ fetch.found /\ fetch.data)
    /\ LET r == _update(html[i], fetch, render)
       IN  /\ html' = [html EXCEPT ![i] = r.html]
           /\ unhandled' = (unhandled \/ r.rejected)
           /\ lastOp' = Op("updateDone", i, "", r.logs, fetch, render, r.writes)
    /\ inflight' = [inflight EXCEPT ![i] = @ - 1]
    /\ UNCHANGED <<currentPanel, constructed, disposed, disposables, released>>

----------------------------------------------------------------------------
(* Numbers.  A number is NaN, +Infinity, -Infinity or a finite value, held  *)
(* in tenths: Fin(423) is 42.3.                                             *)

NaN == [k |-> "nan", v |-> 0]
PosInf == [k |-> "inf", v |-> 1]
NegInf == [k |-> "inf", v |-> -1]
Fin(v) == [k |-> "fin", v |-> v]
Percent(n) == Fin(10 * n)

\* a < b
Lt(a, b) ==
    /\ a.k # "nan"
    /\ b.k # "nan"
    /\ CASE a.k = b.k -> a.v < b.v
         [] a.k = "inf" -> a.v < 0
         [] OTHER -> b.v > 0

\* a >= b
Geq(a, b) == a.k # "nan" /\ b.k # "nan" /\ ~Lt(a, b)

MathMin(a, b) ==
    IF a.k = "nan" \/ b.k = "nan" THEN NaN ELSE IF Lt(b, a) THEN b ELSE a

MathMax(a, b) ==
    IF a.k = "nan" \/ b.k = "nan" THEN NaN ELSE IF Lt(a, b) THEN b ELSE a

NumberIsFinite(x) == x.k = "fin"

DigitChars == <<"0", "1", "2", "3", "4", "5", "6", "7", "8", "9">>

\* the decimal digits of a natural number
RECURSIVE NatString(_)
NatString(n) ==
    IF n < 10 THEN <<DigitChars[n + 1]>>
    ELSE NatString(n \div 10) \o <<DigitChars[(n % 10) + 1]>>

\* x.toFixed(1)
ToFixed1(x) ==
    CASE x.k = "nan" -> <<"N", "a", "N">>
      [] x.k = "inf" -> (IF x.v < 0 THEN <<"-">> ELSE <<>>)
                           \o <<"I", "n", "f", "i", "n", "i", "t", "y">>
      [] OTHER -> LET m == IF x.v < 0 THEN -x.v ELSE x.v
                  IN  (IF x.v < 0 THEN <<"-">> ELSE <<>>)
                         \o NatString(m \div 10) \o <<".">> \o NatString(m % 10)

----------------------------------------------------------------------------
(* part_000, lines 529-639: the rendering helpers *)

\* Math.max(0, Math.min(100, value)) without the Number.isFinite test
_clampPercentage_NoFinite(value) ==
    MathMax(Percent(0), MathMin(Percent(100), value))

\* _clampPercentage, lines 634-639
_clampPercentage(value) ==
    IF ~NumberIsFinite(value) THEN Percent(0)
    ELSE MathMax(Percent(0), MathMin(Percent(100), value))

\* _getProgressClass, lines 609-614
_getProgressClass(pct, isOutdated) == IF isOutdated THEN "outdated" ELSE ""

Unset == [k |-> "unset", v |-> 0]
\* config.get<number>(key, defaultValue)
ConfigGet(value, defaultValue) == IF value = Unset THEN defaultValue ELSE value

DefaultWarningThreshold == 70
DefaultCriticalThreshold == 90

\* _getUsageClass with the warning threshold tested before the critical one
_getUsageClass_WarningFirst(pct, isOutdated, cfg) ==
    IF isOutdated THEN "outdated"
    ELSE LET warningThreshold ==
                 ConfigGet(cfg.warningThreshold, Percent(DefaultWarningThreshold))
             criticalThreshold ==
                 ConfigGet(cfg.criticalThreshold, Percent(DefaultCriticalThreshold))
         IN  IF ~Geq(pct, warningThreshold) THEN "low"
             ELSE IF Geq(pct, criticalThreshold) THEN "high"
             ELSE "medium"

\* _getUsageClass, lines 616-632
_getUsageClass(pct, isOutdated, cfg) ==
    IF isOutdated THEN "outdated"
    ELSE LET warningThreshold ==
                 ConfigGet(cfg.warningThreshold, Percent(DefaultWarningThreshold))
             criticalThreshold ==
                 ConfigGet(cfg.criticalThreshold, Percent(DefaultCriticalThreshold))
         IN  IF Geq(pct, criticalThreshold) THEN "high"
             ELSE IF Geq(pct, warningThreshold) THEN "medium"
             ELSE "low"

Str_NA == <<"N", "/", "A">>

\* one window's block without the outdated tests on the widths: the bars
\* are as wide as the clamped values say
WindowBlock_WidthFromValue(w, id, header, cfg) ==
    LET timePercent == _clampPercentage(w.time_percent)
        usagePercent == _clampPercentage(w.used_percent)
        timeText == IF w.outdated THEN Str_NA ELSE ToFixed1(timePercent) \o <<"%">>
        usageText == IF w.outdated THEN Str_NA ELSE ToFixed1(usagePercent) \o <<"%">>
    IN  [html |-> [header |-> header,
                   timeClass |-> _getProgressClass(timePercent, w.outdated),
                   timeText |-> timeText,
                   outdatedStr |-> IF w.outdated THEN " [OUTDATED]" ELSE "",
                   usageClass |-> _getUsageClass(usagePercent, w.outdated, cfg),
                   usageText |-> usageText],
         widthRules |-> <<[id |-> id, bar |-> "time", width |-> timePercent],
                          [id |-> id, bar |-> "usage", width |-> usagePercent]>>]

\* one window's block, lines 533-567 (primary) and 570-604 (secondary)
WindowBlock(w, id, header, cfg) ==
    LET timePercent == IF w.outdated THEN Percent(0) ELSE _clampPercentage(w.time_percent)
        usagePercent == IF w.outdated THEN Percent(0) ELSE _clampPercentage(w.used_percent)
        timeText == IF w.outdated THEN Str_NA ELSE ToFixed1(timePercent) \o <<"%">>
        usageText == IF w.outdated THEN Str_NA ELSE ToFixed1(usagePercent) \o <<"%">>
    IN  [html |-> [header |-> header,
                   timeClass |-> _getProgressClass(timePercent, w.outdated),
                   timeText |-> timeText,
                   outdatedStr |-> IF w.outdated THEN " [OUTDATED]" ELSE "",
                   usageClass |-> _getUsageClass(usagePercent, w.outdated, cfg),
                   usageText |-> usageText],
         widthRules |-> <<[id |-> id, bar |-> "time", width |-> timePercent],
                          [id |-> id, bar |-> "usage", width |-> usagePercent]>>]

Header_Primary == "5-Hour Session"
Header_Secondary == "Weekly Limit"

\* _renderProgressSection, lines 529-607: the blocks of the windows that are
\* present, in order, and the width rules pushed for them
_renderProgressSection(d, cfg) ==
    LET first == IF d.primary.present
                 THEN <<WindowBlock(d.primary, "primary", Header_Primary, cfg)>>
                 ELSE <<>>
        second == IF d.secondary.present
                  THEN <<WindowBlock(d.secondary, "secondary", Header_Secondary, cfg)>>
                  ELSE <<>>
        blocks == first \o second
    IN  [html |-> [k \in 1..Len(blocks) |-> blocks[k].html],
         widthRules |-> Concat([k \in 1..Len(blocks) |-> blocks[k].widthRules])]

NoProgress == [html |-> <<>>, widthRules |-> <<>>]

----------------------------------------------------------------------------
(* Harness: _renderProgressSection applied to one snapshot *)

\* time_percent and used_percent as the parser may deliver them
TimeValues == {NaN, Fin(-50), Fin(423), Percent(150)}
UsedValues ==
    {NaN, PosInf, NegInf, Fin(-50), Fin(-1), Percent(0), Fin(423), Percent(75),
     Percent(95), Percent(100), Fin(1001), Percent(150)}

NoWindow ==
    [present |-> FALSE, time_percent |-> NaN, used_percent |-> NaN, outdated |-> FALSE]
Windows ==
    {[present |-> TRUE, time_percent |-> t, used_percent |-> u, outdated |-> o] :
        t \in TimeValues, u \in UsedValues, o \in BOOLEAN}
\* the secondary window takes fewer values
SecondaryWindows ==
    {w \in Windows : w.time_percent \in {NaN, Fin(423)}
                     /\ w.used_percent \in {PosInf, Fin(-50), Fin(423), Percent(150)}}

Snapshots ==
    {[primary |-> p, secondary |-> s] :
        p \in Windows \cup {NoWindow}, s \in SecondaryWindows \cup {NoWindow}}

DefaultConfig == [warningThreshold |-> Unset, criticalThreshold |-> Unset]
RenderConfigs ==
    {DefaultConfig,
     [warningThreshold |-> Percent(90), criticalThreshold |-> Percent(70)]}

ClsIdle ==
    /\ percentage = NaN
    /\ outdated = FALSE
    /\ usageClass = ""
    /\ clsPc = "idle"

RenderIdle ==
    /\ config = DefaultConfig
    /\ data = [primary |-> NoWindow, secondary |-> NoWindow]
    /\ progress = NoProgress
    /\ renderPc = "idle"
    /\ ClsIdle

RenderInit ==
    /\ config \in RenderConfigs
    /\ data \in Snapshots
    /\ progress = NoProgress
    /\ renderPc = "ready"
    /\ ClsIdle

RenderCall ==
    /\ renderPc = "ready"
    /\ progress' = _renderProgressSection(data, config)
    /\ renderPc' = "done"
    /\ UNCHANGED <<config, data, percentage, outdated, usageClass, clsPc>>

(* Harness: _getUsageClass applied to one percentage under one configuration *)

Thresholds ==
    {Percent(0), Percent(1), Percent(50), Percent(70), Percent(75), Percent(90),
     Percent(100)}
Percentages == UsedValues \cup {Percent(10), Percent(70), Percent(90), Fin(899)}
ClsConfigs ==
    {[warningThreshold |-> w, criticalThreshold |-> c] :
        w \in Thresholds \cup {Unset}, c \in Thresholds \cup {Unset}}

ClsInit ==
    /\ config \in ClsConfigs
    /\ percentage \in Percentages
    /\ outdated \in BOOLEAN
    /\ usageClass = ""
    /\ clsPc = "ready"
    /\ data = [primary |-> NoWindow, secondary |-> NoWindow]
    /\ progress = NoProgress
    /\ renderPc = "idle"

ClsCall ==
    /\ clsPc = "ready"
    /\ usageClass' = _getUsageClass(percentage, outdated, config)
    /\ clsPc' = "done"
    /\ UNCHANGED <<config, data, progress, renderPc, percentage, outdated>>

----------------------------------------------------------------------------
(* Specifications *)

MaxUpdateInst == 1  \* instances constructed in a run of SpecUpdate

\* the outcomes the lifecycle is explored with: data rendered, and a throw
LifecycleFetches ==
    {f \in FetchOutcomes : (f.threw /\ f.thrown.isError) \/ (f.found /\ f.data)}

\* one step of the extension host: a command, a host event, a message from
\* the webview or the end of a data fetch; at most maxInst instances are
\* constructed and _update is given the outcomes of fetches and renders
PanelStep(maxInst, fetches, renders) ==
    \/ createOrShow /\ constructed' <= maxInst /\ UNCHANGED <<sanVars, escVars, renderVars>>
    \/ revive /\ constructed' <= maxInst /\ UNCHANGED <<sanVars, escVars, renderVars>>
    \/ \E i \in Ids : dispose(i) /\ UNCHANGED <<sanVars, escVars, renderVars>>
    \/ \E i \in Ids : onDidDispose(i) /\ UNCHANGED <<sanVars, escVars, renderVars>>
    \/ \E i \in Ids, command \in Commands :
          onDidReceiveMessage(i, command) /\ UNCHANGED <<sanVars, escVars, renderVars>>
    \/ \E i \in Ids, fetch \in fetches, render \in renders :
          UpdateDone(i, fetch, render) /\ UNCHANGED <<sanVars, escVars, renderVars>>

\* the lifecycle: up to MaxInst instances, their disposal and their cycles
Init == SanIdle /\ EscIdle /\ PanelInit /\ RenderIdle
Next == PanelStep(MaxInst, LifecycleFetches, {RenderOk})
Spec == Init /\ [][Next]_vars

\* the update cycle: every outcome of the data fetch and of the renderer
UpdateNext == PanelStep(MaxUpdateInst, FetchOutcomes, RenderOutcomes)
SpecUpdate == Init /\ [][UpdateNext]_vars

\* sanitizeColor on every input of SanInputs
SanitizeInit == SanInit /\ EscIdle /\ PanelInit /\ RenderIdle
SanitizeNext == SanCall /\ UNCHANGED <<escVars, panelVars, renderVars>>
SpecSanitize == SanitizeInit /\ [][SanitizeNext]_vars

\* _getErrorHtml and _escapeHtml on every message of EscInputs
EscapeInit == SanIdle /\ EscInit /\ PanelInit /\ RenderIdle
EscapeNext ==
    \/ EscRender /\ UNCHANGED <<sanVars, panelVars, renderVars>>
    \/ EscAgain /\ UNCHANGED <<sanVars, panelVars, renderVars>>
SpecEscape == EscapeInit /\ [][EscapeNext]_vars

\* _renderProgressSection on every snapshot of Snapshots
ProgressInit == SanIdle /\ EscIdle /\ PanelInit /\ RenderInit
ProgressNext == RenderCall /\ UNCHANGED <<sanVars, escVars, panelVars>>
SpecRender == ProgressInit /\ [][ProgressNext]_vars

\* _getUsageClass on every percentage and configuration
ClassifyInit == SanIdle /\ EscIdle /\ PanelInit /\ ClsInit
ClassifyNext == ClsCall /\ UNCHANGED <<sanVars, escVars, panelVars>>
SpecClassify == ClassifyInit /\ [][ClassifyNext]_vars

----------------------------------------------------------------------------
(* Properties of sanitizeColor, checked under SpecSanitize *)

InGrammar(s) ==
    \/ Test(HEX_COLOR_PATTERN, s)
    \/ Test(RGB_COLOR_PATTERN, s)
    \/ Test(HSL_COLOR_PATTERN, s)

HasChar(s, c) == \E k \in 1..Len(s) : s[k] = c

WithoutNewlines(s) == SelectSeq(s, LAMBDA c : c # "\n")

C3_ForbiddenTextRejected ==
    (/\ sanPc = "done"
     /\ input.def
     /\ \/ HasChar(input.str, ";")
        \/ Includes(input.str, Str_url)
        \/ Includes(input.str, Str_expression)
        \/ HasChar(input.str, "\n"))
    => (result = fallback /\ result # input.str)

\* C3 as amended: an input that contains ';', 'url(' or 'expression(' yields
\* the fallback and never the input; an input that contains a newline yields
\* the fallback unless every newline stands where the patterns allow white
\* space (before or after the colour, where trim removes it, or next to a
\* component inside rgb()/hsl(), where \s* matches it): then the trimmed input
\* is returned, and the same string without its newlines is in the grammar.
C3_InjectionTextRejected ==
    (sanPc = "done" /\ input.def) =>
        /\ (\/ HasChar(input.str, ";")
            \/ Includes(input.str, Str_url)
            \/ Includes(input.str, Str_expression))
           => (result = fallback /\ result # input.str)
        /\ (HasChar(input.str, "\n") /\ result # fallback)
           => /\ result = Trim(input.str)
              /\ InGrammar(WithoutNewlines(result))
              /\ ~HasChar(result, ";")

\* an input of the rgb()/hsl() shape followed by ';' was given and rejected
C3_Witness ==
    /\ sanPc = "done"
    /\ HasChar(input.str, ";")
    /\ InGrammar(Trim(SelectSeq(input.str, LAMBDA c : c # ";")))
    /\ result = fallback

----------------------------------------------------------------------------
(* Properties of _getErrorHtml and _escapeHtml, checked under SpecEscape *)

Entities == {Ent_amp, Ent_lt, Ent_gt, Ent_quot, Ent_39}

StartsWith(s, prefix) ==
    Len(s) >= Len(prefix) /\ SubSeq(s, 1, Len(prefix)) = prefix

\* reads an escaped text back: every entity to the character it stands for
RECURSIVE Unescape(_)
Unescape(s) ==
    IF s = <<>> THEN <<>>
    ELSE IF StartsWith(s, Ent_amp) THEN <<"&">> \o Unescape(SubSeq(s, 6, Len(s)))
    ELSE IF StartsWith(s, Ent_lt) THEN <<"<">> \o Unescape(SubSeq(s, 5, Len(s)))
    ELSE IF StartsWith(s, Ent_gt) THEN <<">">> \o Unescape(SubSeq(s, 5, Len(s)))
    ELSE IF StartsWith(s, Ent_quot) THEN <<"\"">> \o Unescape(SubSeq(s, 7, Len(s)))
    ELSE IF StartsWith(s, Ent_39) THEN <<"'">> \o Unescape(SubSeq(s, 6, Len(s)))
    ELSE <<Head(s)>> \o Unescape(Tail(s))

\* s with every & written as &amp; and nothing else changed
AmpAgain(s) ==
    Concat([k \in 1..Len(s) |-> IF s[k] = "&" THEN Ent_amp ELSE <<s[k]>>])

\* C10: the error page carries its message escaped: none of < > " ' is left
\* in it, every & in it begins one of the five entities, and reading the
\* entities back gives the message (each occurrence was replaced by its own
\* entity; "<script>" becomes "&lt;script&gt;").  Escaping the escaped text
\* again escapes each of its & once more, so it changes whenever the message
\* held one of the five characters.
C10_ErrorMessageEscaped ==
    /\ escPc \in {"once", "twice"} =>
          LET m == escMarkup.message
          IN  /\ escMarkup.kind = "error"
              /\ \A k \in 1..Len(m) : m[k] \notin {"<", ">", "\"", "'"}
              /\ \A k \in 1..Len(m) :
                    m[k] = "&" => \E e \in Entities : StartsWith(SubSeq(m, k, Len(m)), e)
              /\ Unescape(m) = escIn
              /\ escIn = Str_script => m = <<"&", "l", "t", ";", "s", "c", "r", "i", "p", "t", "&", "g", "t", ";">>
    /\ escPc = "twice" =>
          /\ escTwice = AmpAgain(escMarkup.message)
          /\ (\E k \in 1..Len(escIn) : escIn[k] \in SpecialChars)
                => escTwice # escMarkup.message

\* "<" was rendered as "&lt;" and escaped again to "&amp;lt;"
C10_Witness ==
    /\ escPc = "twice"
    /\ escIn = <<"<">>
    /\ escMarkup.message = Ent_lt
    /\ escTwice = Ent_amp \o <<"l", "t", ";">>

----------------------------------------------------------------------------
(* Properties of RateLimitWebView, checked under Spec *)

\* the message the catch block of _update takes from a thrown value
CaughtMessage(thrown) == IF thrown.isError THEN thrown.message ELSE Msg_Unknown

\* the last step completed an _update cycle in which something was thrown
LastUpdateThrew ==
    /\ lastOp.op = "updateDone"
    /\ \/ lastOp.fetch.threw
       \/ (lastOp.fetch.found /\ lastOp.fetch.data /\ lastOp.render.threw)

LastThrown ==
    IF lastOp.fetch.threw THEN lastOp.fetch.thrown ELSE lastOp.render.thrown

\* C1 as stated: at most one instance is live, and a live instance is the
\* one in the singleton slot.
C1_SingleLiveInstance ==
    /\ Cardinality(Live) <= 1
    /\ \A i \in Live : currentPanel = i

\* C4: no _update cycle ends with an uncaught failure.  When the data
\* collaborator or the success renderer throws, the cycle writes one log
\* entry and assigns the error page with the caught message; completing a
\* cycle never changes the singleton slot nor disposes an instance.
C4_UpdateFailureContained ==
    /\ [](/\ ~unhandled
          /\ lastOp.op = "updateDone" => html[lastOp.inst].kind \in {"success", "error"}
          /\ LastUpdateThrew =>
                /\ html[lastOp.inst] =
                      [kind |-> "error",
                       message |-> _escapeHtml(CaughtMessage(LastThrown))]
                /\ lastOp.logs =
                      <<Log("Error updating WebView: ", CaughtMessage(LastThrown))>>)
    /\ [][lastOp'.op = "updateDone" =>
             /\ currentPanel' = currentPanel
             /\ disposed' = disposed
             /\ constructed' = constructed]_vars

\* the collaborator threw during a cycle of the instance in the slot, which
\* now shows the error page and is still in the slot
C4_Witness ==
    /\ lastOp.op = "updateDone"
    /\ lastOp.fetch.threw
    /\ lastOp.fetch.thrown.isError
    /\ currentPanel = lastOp.inst
    /\ lastOp.inst \in Live
    /\ html[lastOp.inst].kind = "error"

\* what the markup must be after a cycle whose fetch returned found = false
\* or no data
ErrorRouting ==
    LET f == lastOp.fetch
        shown == html[lastOp.inst]
    IN  /\ (~f.threw /\ ~f.found) =>
              shown = [kind |-> "error",
                       message |-> _escapeHtml(IF f.error # <<>> THEN f.error
                                               ELSE Msg_NotFound)]
        /\ (~f.threw /\ f.found /\ ~f.data) =>
              shown = [kind |-> "error", message |-> _escapeHtml(Msg_Undefined)]

\* C5 as stated: a cycle assigns the success page if and only if the
\* collaborator returned found = true with data; found = false gives the
\* error page with the collaborator's error or the default message, missing
\* data gives the error page.
C5_SuccessIffFoundWithData ==
    lastOp.op = "updateDone" =>
        /\ html[lastOp.inst].kind = "success"
              <=> (~lastOp.fetch.threw /\ lastOp.fetch.found /\ lastOp.fetch.data)
        /\ ErrorRouting

\* C5 as amended: a cycle assigns the success page if and only if the
\* collaborator returned found = true with data and rendering that data threw
\* nothing; found = false gives the error page with the collaborator's error
\* or the default message, missing data gives the error page.
C5_SuccessIffRendered ==
    lastOp.op = "updateDone" =>
        /\ html[lastOp.inst].kind = "success"
              <=> (/\ ~lastOp.fetch.threw
                   /\ lastOp.fetch.found
                   /\ lastOp.fetch.data
                   /\ ~lastOp.render.threw)
        /\ ErrorRouting

\* found = true with data, the success renderer threw, the error page is shown
C5_Witness ==
    /\ lastOp.op = "updateDone"
    /\ ~lastOp.fetch.threw
    /\ lastOp.fetch.found
    /\ lastOp.fetch.data
    /\ lastOp.render.threw
    /\ html[lastOp.inst].kind = "error"

\* C6 as stated: dispose() leaves the slot empty and the instance disposed,
\* with its cleanup handles released once each in reverse registration order;
\* dispose() on an instance that is already disposed changes nothing: not the
\* slot, not the set of disposed instances, no handle.
C6_DisposeIdempotent ==
    /\ [](lastOp.op \in {"dispose", "onDidDispose"} =>
             /\ currentPanel = None
             /\ lastOp.inst \in disposed
             /\ disposables[lastOp.inst] = <<>>
             /\ released[lastOp.inst] = <<"onDidReceiveMessage", "onDidDispose">>)
    /\ [][(lastOp'.op = "dispose" /\ lastOp'.inst \in disposed) =>
             /\ currentPanel' = currentPanel
             /\ disposed' = disposed
             /\ disposables' = disposables
             /\ released' = released]_vars

\* C7 as stated: createOrShow with the slot filled constructs nothing, keeps
\* the slot and starts one update cycle on the instance in it; with the slot
\* empty it constructs an instance and puts it into the slot; after two calls
\* in succession exactly one instance is live, the one the first call left
\* in the slot.
C7_ShowReusesInstance ==
    [][lastOp'.op = "createOrShow" =>
          /\ IF currentPanel # None
             THEN /\ constructed' = constructed
                  /\ currentPanel' = currentPanel
                  /\ lastOp'.inst = currentPanel
                  /\ inflight' = [inflight EXCEPT ![currentPanel] = @ + 1]
             ELSE /\ constructed' = constructed + 1
                  /\ currentPanel' = constructed'
                  /\ currentPanel' \in Live'
          /\ lastOp.op = "createOrShow" =>
                /\ currentPanel' = lastOp.inst
                /\ Live' = {lastOp.inst}]_vars

\* C8 as stated: at most one update cycle of an instance is in progress.
C8_OneCycleInProgress ==
    \A i \in Ids : inflight[i] <= 1

\* C8 as amended: update cycles of one instance are not serialised: the
\* constructor, createOrShow on the instance in the slot and a refresh message
\* each start one cycle at once, also while earlier cycles of the instance
\* still wait for their data, so several can be in progress; a cycle ends
\* when its own data arrives and assigns markup exactly once then, and no
\* other step assigns markup or ends a cycle.
C8_CyclesOverlap ==
    /\ [](lastOp.op = "updateDone" => lastOp.writes = 1)
    /\ [][/\ lastOp'.op = "updateDone" =>
                /\ inflight' = [inflight EXCEPT ![lastOp'.inst] = @ - 1]
                /\ html'[lastOp'.inst] # NoHtml
                /\ \A j \in Ids \ {lastOp'.inst} : html'[j] = html[j]
          /\ lastOp'.op # "updateDone" =>
                /\ html' = html
                /\ \A j \in Ids : inflight'[j] >= inflight[j]
          /\ (\/ lastOp'.op \in {"createOrShow", "revive"}
              \/ (lastOp'.op = "message" /\ lastOp'.cmd = "refresh"))
             => inflight' = [inflight EXCEPT ![lastOp'.inst] = @ + 1]]_vars

\* two cycles of one live instance wait for their data at the same time
C8_Witness ==
    \E i \in Live : inflight[i] >= 2

\* C9: a 'refresh' message starts exactly one update cycle on its instance and
\* changes neither the slot nor which instances are constructed or disposed;
\* a message with another command starts no cycle and changes neither the
\* markup of any instance nor the slot nor the instances.
C9_RefreshOnly ==
    [][lastOp'.op = "message" =>
          /\ currentPanel' = currentPanel
          /\ constructed' = constructed
          /\ disposed' = disposed
          /\ disposables' = disposables
          /\ html' = html
          /\ IF lastOp'.cmd = "refresh"
             THEN inflight' = [inflight EXCEPT ![lastOp'.inst] = @ + 1]
             ELSE inflight' = inflight]_vars

\* a refresh message arrived while a cycle of the instance was waiting
C9_Witness ==
    /\ lastOp.op = "message"
    /\ lastOp.cmd = "refresh"
    /\ lastOp.inst = currentPanel
    /\ inflight[lastOp.inst] >= 2

\* C15 as stated: once dispose() has run on an instance, no update cycle of
\* that instance assigns markup to it: a cycle started before dispose() whose
\* data arrives after it leaves the markup of the disposed instance as it was.
C15_NoWriteAfterDispose ==
    [][\A i \in disposed :
          /\ html'[i] = html[i]
          /\ (lastOp'.op = "updateDone" /\ lastOp'.inst = i) => lastOp'.writes = 0]_vars

----------------------------------------------------------------------------
(* The numeric components of an accepted colour, checked under SpecSanitize *)

DigitValue(c) ==
    CASE c = "0" -> 0 [] c = "1" -> 1 [] c = "2" -> 2 [] c = "3" -> 3
      [] c = "4" -> 4 [] c = "5" -> 5 [] c = "6" -> 6 [] c = "7" -> 7
      [] c = "8" -> 8 [] c = "9" -> 9

\* the number a string of digits writes; 0 for the empty string
RECURSIVE Decimal(_)
Decimal(ds) ==
    IF ds = <<>> THEN 0
    ELSE 10 * Decimal(SubSeq(ds, 1, Len(ds) - 1)) + DigitValue(ds[Len(ds)])

\* the position of the first c in s, Len(s) + 1 when there is none
RECURSIVE IndexOf(_, _)
IndexOf(s, c) ==
    IF s = <<>> \/ Head(s) = c THEN 1 ELSE 1 + IndexOf(Tail(s), c)

\* s cut at every comma
RECURSIVE SplitCommas(_)
SplitCommas(s) ==
    LET k == IndexOf(s, ",")
    IN  IF k > Len(s) THEN <<s>>
        ELSE <<SubSeq(s, 1, k - 1)>> \o SplitCommas(SubSeq(s, k + 1, Len(s)))

\* the components of name( c1 , c2 , c3 [, a] ), white space and % removed
Components(s) ==
    LET bare == SelectSeq(s, LAMBDA c : c \notin WhiteSpace \cup {"%"})
    IN  SplitCommas(SubSeq(bare, IndexOf(bare, "(") + 1, Len(bare) - 1))

\* the value of the decimal numeral c lies in [0, max]
AtMost(c, max) ==
    LET k == IndexOf(c, ".")
        whole == Decimal(SubSeq(c, 1, k - 1))
        fraction == SubSeq(c, k + 1, Len(c))
    IN  \/ whole < max
        \/ whole = max /\ \A j \in 1..Len(fraction) : fraction[j] = "0"

\* C14 as stated: an accepted rgb()/rgba() has its three channels in
\* [0,255], an accepted hsl()/hsla() has its hue in [0,360] and its saturation
\* and lightness in [0,100] percent, decimals included, and an accepted alpha
\* is in [0,1].
C14_ComponentsInRange ==
    (/\ sanPc = "done"
     /\ input.def
     /\ result = Trim(input.str)
     /\ Test(RGB_COLOR_PATTERN, result) \/ Test(HSL_COLOR_PATTERN, result))
    => LET c == Components(result)
       IN  /\ Test(RGB_COLOR_PATTERN, result) =>
                 \A k \in 1..3 : AtMost(c[k], 255)
           /\ Test(HSL_COLOR_PATTERN, result) =>
                 /\ AtMost(c[1], 360)
                 /\ AtMost(c[2], 100)
                 /\ AtMost(c[3], 100)
           /\ Len(c) = 4 => AtMost(c[4], 1)

----------------------------------------------------------------------------
(* Properties of the rendering helpers, checked under SpecRender and       *)
(* SpecClassify                                                             *)

\* the windows of the snapshot with the id and the header of their blocks
WindowSlots ==
    {[id |-> "primary", header |-> Header_Primary, w |-> data.primary],
     [id |-> "secondary", header |-> Header_Secondary, w |-> data.secondary]}

PresentSlots == {s \in WindowSlots : s.w.present}

\* the widths of the rules emitted for a bar of a window
RuleWidths(id, bar) ==
    {progress.widthRules[k].width :
        k \in {j \in DOMAIN progress.widthRules :
                  /\ progress.widthRules[j].id = id
                  /\ progress.widthRules[j].bar = bar}}

\* the blocks rendered under a header
BlocksOf(header) ==
    {progress.html[k] : k \in {j \in DOMAIN progress.html : progress.html[j].header = header}}

RawValue(w, bar) == IF bar = "time" THEN w.time_percent ELSE w.used_percent

\* C11: a present window with outdated = TRUE is rendered with the text
\* 'N/A' for time and for usage, width 0 for both of its bars and the class
\* 'outdated' on its bars, whatever its time_percent and used_percent are;
\* a snapshot with both windows present and neither outdated is rendered
\* with both headers and without the text 'N/A'.
C11_OutdatedShowsNothing ==
    renderPc = "done" =>
        /\ \A s \in PresentSlots :
              /\ Cardinality(BlocksOf(s.header)) = 1
              /\ s.w.outdated =>
                    /\ \A b \in BlocksOf(s.header) :
                          /\ b.timeText = Str_NA
                          /\ b.usageText = Str_NA
                          /\ b.usageClass = "outdated"
                          /\ b.timeClass = "outdated"
                    /\ RuleWidths(s.id, "time") = {Percent(0)}
                    /\ RuleWidths(s.id, "usage") = {Percent(0)}
        /\ (\A s \in WindowSlots : s.w.present /\ ~s.w.outdated) =>
              /\ Len(progress.html) = 2
              /\ progress.html[1].header = Header_Primary
              /\ progress.html[2].header = Header_Secondary
              /\ \A k \in 1..2 :
                    /\ ~Includes(progress.html[k].timeText, Str_NA)
                    /\ ~Includes(progress.html[k].usageText, Str_NA)
                    /\ progress.html[k].outdatedStr = ""

\* an outdated primary window with NaN and 150 as its values was rendered
C11_Witness ==
    /\ renderPc = "done"
    /\ data.primary.present
    /\ data.primary.outdated
    /\ data.primary.time_percent = NaN
    /\ data.primary.used_percent = Percent(150)
    /\ RuleWidths("primary", "usage") = {Percent(0)}
    /\ data.secondary.present
    /\ ~data.secondary.outdated

\* C12: every width rule emitted for a window that is not outdated carries
\* the clamped value of its field: a finite number in [0,100], which is 0
\* for NaN, +Infinity and -Infinity, 0 for a value below 0, 100 for a value
\* above 100 and the value itself otherwise; clamp(NaN) = 0, clamp(-5) = 0,
\* clamp(150) = 100, clamp(42.3) = 42.3.
C12_ClampInRange ==
    renderPc = "done" =>
        \A s \in PresentSlots, bar \in {"time", "usage"} :
            ~s.w.outdated =>
               LET raw == RawValue(s.w, bar)
               IN  /\ Cardinality(RuleWidths(s.id, bar)) = 1
                   /\ \A width \in RuleWidths(s.id, bar) :
                         /\ width.k = "fin"
                         /\ width.v >= 0
                         /\ width.v <= 1000
                         /\ raw.k # "fin" => width.v = 0
                         /\ (raw.k = "fin" /\ raw.v < 0) => width.v = 0
                         /\ (raw.k = "fin" /\ raw.v > 1000) => width.v = 1000
                         /\ (raw.k = "fin" /\ raw.v >= 0 /\ raw.v <= 1000) => width = raw
                         /\ width = _clampPercentage(raw)
                   /\ _clampPercentage(NaN) = Fin(0)
                   /\ _clampPercentage(Fin(-50)) = Fin(0)
                   /\ _clampPercentage(Fin(1500)) = Fin(1000)
                   /\ _clampPercentage(Fin(423)) = Fin(423)

\* a window that is not outdated was rendered from NaN and +Infinity
C12_Witness ==
    /\ renderPc = "done"
    /\ data.primary.present
    /\ ~data.primary.outdated
    /\ data.primary.time_percent = NaN
    /\ data.primary.used_percent = PosInf
    /\ RuleWidths("primary", "time") = {Percent(0)}
    /\ RuleWidths("primary", "usage") = {Percent(0)}

\* the thresholds _getUsageClass reads, in tenths
WarningOf(cfg) ==
    IF cfg.warningThreshold = Unset THEN 10 * DefaultWarningThreshold
    ELSE cfg.warningThreshold.v
CriticalOf(cfg) ==
    IF cfg.criticalThreshold = Unset THEN 10 * DefaultCriticalThreshold
    ELSE cfg.criticalThreshold.v

\* the value of a percentage in tenths, for a percentage that is a number
\* or an infinity
AtLeast(p, threshold) ==
    \/ p = PosInf
    \/ p.k = "fin" /\ p.v >= threshold

\* C13: _getUsageClass returns 'outdated' whenever outdated is true;
\* otherwise 'high' when the percentage is at least the critical threshold,
\* else 'medium' when it is at least the warning threshold, else 'low', for
\* thresholds in 0..100 in any order; with warning above critical a
\* percentage at or above critical is 'high'.  classify(95, false, 70, 90) is
\* high, (75, false, 70, 90) medium, (10, false, 70, 90) low.
C13_ClassifyTiers ==
    clsPc = "done" =>
        LET warning == WarningOf(config)
            critical == CriticalOf(config)
        IN  /\ outdated => usageClass = "outdated"
            /\ ~outdated =>
                  /\ usageClass \in {"high", "medium", "low"}
                  /\ usageClass = "high" <=> AtLeast(percentage, critical)
                  /\ usageClass = "medium" <=>
                        (~AtLeast(percentage, critical) /\ AtLeast(percentage, warning))
                  /\ (warning > critical /\ AtLeast(percentage, critical))
                        => usageClass = "high"
            /\ (~outdated /\ warning = 700 /\ critical = 900) =>
                  /\ percentage = Percent(95) => usageClass = "high"
                  /\ percentage = Percent(75) => usageClass = "medium"
                  /\ percentage = Percent(10) => usageClass = "low"

\* warning 90 above critical 70: 75 is below warning, at least critical, 'high'
C13_Witness ==
    /\ clsPc = "done"
    /\ ~outdated
    /\ config.warningThreshold = Percent(90)
    /\ config.criticalThreshold = Percent(70)
    /\ percentage = Percent(75)
    /\ usageClass = "high"

====
